---- MODULE Spec2Model ----
(***************************************************************************)
(* Model of the retrieval-rerank-ground pipeline of agentic_rag:           *)
(*   grounding.py  build_grounding_pack                                    *)
(*   chunking.py   chunk_document, _tail_within_tokens, _estimate_tokens   *)
(*   reranking.py  EmbeddingSimilarityReranker.rerank, _cosine_similarity  *)
(* Each function is pure apart from the embedding call, so each gets a     *)
(* specification whose Init draws the arguments from bounded sets and      *)
(* whose action applies the function as the code computes it.              *)
(***************************************************************************)
EXTENDS Integers, Sequences, FiniteSets, TLC

VARIABLES
    pc,            \* position of the caller: "<fn>_call", "<fn>_done", "<fn>_error"
    candidates,    \* Sequence[SearchResult] argument (grounding and rerank)
    max_chunks,    \* build_grounding_pack argument
    diversify,     \* build_grounding_pack argument
    pack,          \* build_grounding_pack return value
    doc,           \* chunk_document argument: doc.blocks
    config,        \* chunk_document argument: ChunkingConfig
    chunks,        \* chunk_document return value
    query,         \* rerank argument
    top_n,         \* rerank argument
    vectors,       \* what embedding_provider.embed returned
    embed_calls,   \* log of the argument of every embed call
    reranked,      \* rerank return value
    reranked_src,  \* for each returned candidate, its position in candidates
    user_groups,   \* retrieve argument (query command: --group)
    top_k,         \* retrieve argument (query command: --top-k, 0 when not given)
    semantic_configuration,  \* AzureSearchRetriever._semantic_configuration
    embed_error,   \* whether the embed call of retrieve raised
    search_requests,  \* log of the JSON body of every search request posted
    response,      \* what the search backend answered
    results,       \* retrieve return value
    settings,      \* query command: PipelineSettings
    disable_rerank,   \* query command: --disable-rerank
    final_chunks,  \* query command: --final-chunks, 0 when not given
    provider_client,  \* the embedding provider's httpx client: "none", "open", "closed"
    retriever_client, \* the retriever's httpx client: "none", "open", "closed"
    rerank_input   \* query command: the candidates handed to the reranker

vars == <<pc, candidates, max_chunks, diversify, pack, doc, config, chunks,
          query, top_n, vectors, embed_calls, reranked, reranked_src,
          user_groups, top_k, semantic_configuration, embed_error, search_requests,
          response, results, settings, disable_rerank, final_chunks,
          provider_client, retriever_client, rerank_input>>

groundVars == <<candidates, max_chunks, diversify, pack>>
chunkVars  == <<doc, config, chunks>>
rerankVars == <<query, top_n, vectors, embed_calls, reranked, reranked_src>>
retrieveVars == <<user_groups, top_k, semantic_configuration, embed_error,
                  search_requests, response, results>>
queryVars == <<settings, disable_rerank, final_chunks, provider_client,
               retriever_client, rerank_input>>

-----------------------------------------------------------------------------
(* Bounds of the model *)

MaxCands == 4      \* longest candidate sequence given to build_grounding_pack
MaxChunks == 9     \* largest max_chunks
MaxBlocks == 4     \* longest document, in blocks
MaxTokens == 8     \* largest ChunkingConfig.max_tokens
MaxRerank == 3     \* longest candidate sequence given to rerank
MaxTopN == 4       \* largest top_n

-----------------------------------------------------------------------------
(* Helpers *)

Max(a, b) == IF a >= b THEN a ELSE b

Min(a, b) == IF a <= b THEN a ELSE b

SeqsUpTo(S, n) == UNION {[1..k -> S] : k \in 0..n}

\* Python's None for Optional[str] and Optional[int] fields
NoSection == "<None>"

NoPage == -1

(***************************************************************************)
(* retrieval.py SearchResult.  source_url, allowed_groups, metadata and    *)
(* highlights are not read by the functions modelled here except to be     *)
(* copied, and are left out.                                               *)
(***************************************************************************)
SearchResult(id, d, sec, ps, pe, sc) ==
    [chunk_id |-> id, doc_id |-> d, rev |-> "A", text |-> id, score |-> sc,
     section_path |-> sec, page_start |-> ps, page_end |-> pe]

\* c1 and c2 carry the same deduplication key; c1..c5 come from one document
CandidatePool ==
    { SearchResult("c1", "d1", NoSection, 1, 1, 9),
      SearchResult("c2", "d1", NoSection, 1, 1, 5),
      SearchResult("c3", "d1", "Intro", 1, 1, 8),
      SearchResult("c4", "d1", NoSection, 1, 2, 7),
      SearchResult("c5", "d1", NoSection, NoPage, NoPage, 3),
      SearchResult("c6", "d2", NoSection, 1, 1, 6) }

-----------------------------------------------------------------------------
(* grounding.py *)

\* _format_citation: f"{doc_id}{rev_part}{page}", kept as its three parts
_format_citation(candidate) ==
    <<candidate.doc_id,
      IF candidate.rev # "" THEN candidate.rev ELSE "",
      IF candidate.page_start # NoPage /\ candidate.page_start # 0
          THEN candidate.page_start ELSE NoPage>>

\* the GroundingChunk(...) constructor call of build_grounding_pack
GroundingChunk(candidate) ==
    [chunk_id |-> candidate.chunk_id,
     doc_id |-> candidate.doc_id,
     rev |-> candidate.rev,
     text |-> candidate.text,
     section_path |-> candidate.section_path,
     pages |-> <<candidate.page_start, candidate.page_end>>,
     citation |-> _format_citation(candidate),
     score |-> candidate.score]

DedupKeyByChunkId(candidate) ==
    <<candidate.chunk_id, candidate.section_path, candidate.page_start, candidate.page_end>>

\* key = (candidate.doc_id, candidate.section_path, candidate.page_start, candidate.page_end)
DedupKey(candidate) ==
    <<candidate.doc_id, candidate.section_path, candidate.page_start, candidate.page_end>>

OverCapOffByOne(count, mc) == count > Max(2, mc \div 3)

\* if count >= max(2, max_chunks // 3): continue
OverCap(count, mc) == count >= Max(2, mc \div 3)

PackPrepend(pk, chunk) == <<chunk>> \o pk

\* pack.append(...)
PackAppend(pk, chunk) == Append(pk, chunk)

\* per_doc_counts.get(doc_id, 0)
CountGet(counts, d) == IF d \in DOMAIN counts THEN counts[d] ELSE 0

\* per_doc_counts[doc_id] = value
CountSet(counts, d, value) ==
    [x \in (DOMAIN counts) \cup {d} |-> IF x = d THEN value ELSE counts[x]]

\* one iteration of `for candidate in candidates`
GroundStep(st, candidate, mc, dv) ==
    LET key == DedupKey(candidate) IN
    IF key \in st.seen THEN st
    ELSE LET seen1 == st.seen \cup {key}
             count == CountGet(st.per_doc_counts, candidate.doc_id)
         IN IF dv /\ OverCap(count, mc)
            THEN [st EXCEPT !.seen = seen1]
            ELSE LET pack1 == PackAppend(st.pack, GroundingChunk(candidate))
                 IN [seen |-> seen1,
                     per_doc_counts |->
                         IF dv THEN CountSet(st.per_doc_counts, candidate.doc_id, count + 1)
                         ELSE st.per_doc_counts,
                     pack |-> pack1,
                     broke |-> Len(pack1) >= mc]

RECURSIVE GroundLoop(_, _, _, _, _)
GroundLoop(cands, i, st, mc, dv) ==
    IF i > Len(cands) \/ st.broke THEN st.pack
    ELSE GroundLoop(cands, i + 1, GroundStep(st, cands[i], mc, dv), mc, dv)

build_grounding_pack(cands, mc, dv) ==
    GroundLoop(cands, 1,
               [seen |-> {}, per_doc_counts |-> <<>>, pack |-> <<>>, broke |-> FALSE],
               mc, dv)

-----------------------------------------------------------------------------
(* Grounding specification *)

IdleChunk == doc = <<>> /\ config = <<>> /\ chunks = <<>>

IdleRerank ==
    /\ query = "" /\ top_n = 0 /\ vectors = <<>> /\ embed_calls = <<>>
    /\ reranked = <<>> /\ reranked_src = <<>>

IdleGround == max_chunks = 0 /\ diversify = FALSE /\ pack = <<>>

IdleRetrieve ==
    /\ user_groups = <<>> /\ top_k = 0 /\ semantic_configuration = ""
    /\ embed_error = FALSE /\ search_requests = <<>> /\ response = <<>>
    /\ results = <<>>

IdleQuery ==
    /\ settings = <<>> /\ disable_rerank = FALSE /\ final_chunks = 0
    /\ provider_client = "none" /\ retriever_client = "none" /\ rerank_input = <<>>

InitGrounding ==
    /\ pc = "ground_call"
    /\ candidates \in SeqsUpTo(CandidatePool, MaxCands)
    /\ max_chunks \in 0..MaxChunks
    /\ diversify \in BOOLEAN
    /\ pack = <<>>
    /\ IdleChunk
    /\ IdleRerank
    /\ IdleRetrieve
    /\ IdleQuery

BuildGroundingPack ==
    /\ pc = "ground_call"
    /\ pack' = build_grounding_pack(candidates, max_chunks, diversify)
    /\ pc' = "ground_done"
    /\ UNCHANGED <<candidates, max_chunks, diversify, chunkVars, rerankVars, retrieveVars, queryVars>>

NextGrounding == BuildGroundingPack

SpecGrounding == InitGrounding /\ [][NextGrounding]_vars

-----------------------------------------------------------------------------
(* Claims about build_grounding_pack *)

GroundDone == pc = "ground_done"

\* the deduplication key as it can be read off an output entry
PackKey(g) == <<g.doc_id, g.section_path, g.pages[1], g.pages[2]>>

\* the deduplication key of an input candidate, written out field by field
CandKey(c) == <<c.doc_id, c.section_path, c.page_start, c.page_end>>

DocIds == {candidates[i].doc_id : i \in 1..Len(candidates)}

FromDoc(d) == {j \in 1..Len(pack) : pack[j].doc_id = d}

DistinctKeysOf(d) ==
    {CandKey(candidates[i]) : i \in {k \in 1..Len(candidates) : candidates[k].doc_id = d}}

\* C1: for every non-negative max_chunks and either value of diversify the
\* returned pack has at most max_chunks entries.
C1_LengthAtMostMaxChunks ==
    (GroundDone /\ max_chunks >= 0) => Len(pack) <= max_chunks

\* C2: with diversify=True no doc_id occurs in the pack more than
\* max(2, max_chunks // 3) times.
C2_DiversityCap ==
    (GroundDone /\ diversify) =>
        \A d \in DocIds :
            Cardinality(FromDoc(d)) <= (IF max_chunks \div 3 > 2 THEN max_chunks \div 3 ELSE 2)

\* C2 witness: the cap is 3 (max_chunks >= 9), one document offers four distinct
\* keys and exactly three of them are in the pack.
C2_Witness ==
    /\ GroundDone /\ diversify /\ max_chunks \div 3 = 3
    /\ \E d \in DocIds :
        /\ Cardinality(DistinctKeysOf(d)) = 4
        /\ Cardinality(FromDoc(d)) = 3
    /\ Len(pack) < max_chunks

\* C3: no two entries of the pack have the same
\* (doc_id, section_path, page_start, page_end), diversify on or off.
C3_NoDuplicateKeys ==
    GroundDone =>
        \A i, j \in 1..Len(pack) : i # j => PackKey(pack[i]) # PackKey(pack[j])

\* C3 witness: two candidates share a key, the pack holds that key and the loop
\* ran to the end of the candidates.
C3_Witness ==
    /\ GroundDone /\ Len(pack) < max_chunks
    /\ \E i, k \in 1..Len(candidates) :
        /\ i < k
        /\ CandKey(candidates[i]) = CandKey(candidates[k])
        /\ candidates[i].chunk_id # candidates[k].chunk_id
        /\ \E j \in 1..Len(pack) : PackKey(pack[j]) = CandKey(candidates[i])

IsFirstWithKey(i, key) ==
    /\ i \in 1..Len(candidates)
    /\ CandKey(candidates[i]) = key
    /\ \A k \in 1..(i - 1) : CandKey(candidates[k]) # key

\* the input position an output entry was taken from
SourceOf(j) == CHOOSE i \in 1..Len(candidates) : IsFirstWithKey(i, PackKey(pack[j]))

\* C4: the pack is a subsequence of the candidates: every entry is built from
\* the first candidate carrying its key, and entries keep the input order.
C4_OrderedSubsequence ==
    GroundDone =>
        /\ \A j \in 1..Len(pack) :
            \E i \in 1..Len(candidates) :
                /\ IsFirstWithKey(i, PackKey(pack[j]))
                /\ pack[j].chunk_id = candidates[i].chunk_id
                /\ pack[j].text = candidates[i].text
                /\ pack[j].score = candidates[i].score
        /\ \A j, k \in 1..Len(pack) : j < k => SourceOf(j) < SourceOf(k)

\* C4 witness: a later duplicate with another chunk_id was skipped between two
\* entries of the pack.
C4_Witness ==
    /\ GroundDone /\ Len(pack) >= 2
    /\ \E i, k \in 1..Len(candidates) :
        /\ i < k /\ k < Len(candidates)
        /\ CandKey(candidates[i]) = CandKey(candidates[k])
        /\ candidates[i].chunk_id # candidates[k].chunk_id
        /\ SourceOf(Len(pack)) > k

-----------------------------------------------------------------------------
(* chunking.py *)

(***************************************************************************)
(* models.py DocumentBlock.  A text is kept as an identifier for its       *)
(* content and its number of whitespace-separated words, which is all      *)
(* _estimate_tokens reads of it.                                           *)
(***************************************************************************)
DocumentBlock(p, k, id, w) == [page |-> p, kind |-> k, text |-> [id |-> id, words |-> w]]

\* estimates 1, 3, 5 and 9
BlockPool ==
    { DocumentBlock(1, "heading", "Intro", 1),
      DocumentBlock(1, "paragraph", "p3", 3),
      DocumentBlock(2, "paragraph", "p4", 4),
      DocumentBlock(2, "paragraph", "p7", 7) }

\* the document and configuration of the end-to-end example: six blocks of
\* 16, 20, 20, 12, 20, 20 words with target 50, overlap 10, max 80
ExampleDoc ==
    << DocumentBlock(1, "paragraph", "e1", 16),
       DocumentBlock(1, "paragraph", "e2", 20),
       DocumentBlock(1, "paragraph", "e3", 20),
       DocumentBlock(2, "paragraph", "e4", 12),
       DocumentBlock(2, "paragraph", "e5", 20),
       DocumentBlock(2, "paragraph", "e6", 20) >>

ChunkingConfig(t, o, m) == [target_tokens |-> t, overlap_tokens |-> o, max_tokens |-> m]

ExampleConfig == ChunkingConfig(50, 10, 80)

\* max(1, int(words * 1.3)); int(w * 1.3) = floor(13 w / 10) for every w >= 0
_estimate_tokens(words) == Max(1, (13 * words) \div 10)

RECURSIVE SumOver(_, _, _)
\* sum(f[buffer[k]] for k in 1..n)
SumOver(f, buffer, n) == IF n = 0 THEN 0 ELSE f[buffer[n]] + SumOver(f, buffer, n - 1)

\* sum(_estimate_tokens(block.text) for block in buffer); buffer holds positions of d
BufferTokens(d, buffer) ==
    SumOver([i \in 1..Len(d) |-> _estimate_tokens(d[i].text.words)], buffer, Len(buffer))

\* _estimate_tokens("\n".join(block.text for block in buffer)): the words of the
\* joined text are the words of its blocks
JoinedTokens(d, buffer) ==
    _estimate_tokens(SumOver([i \in 1..Len(d) |-> d[i].text.words], buffer, Len(buffer)))

TailBudgetExceededNoGuard(total, tokens, budget, tail) == total + tokens > budget

\* if total + tokens > max_tokens and tail: break
TailBudgetExceeded(total, tokens, budget, tail) == total + tokens > budget /\ tail # <<>>

RECURSIVE TailLoop(_, _, _, _, _, _)
\* for block in reversed(blocks): ...; tail is kept already reversed back
TailLoop(d, buffer, k, tail, total, budget) ==
    IF k = 0 THEN tail
    ELSE LET tokens == _estimate_tokens(d[buffer[k]].text.words) IN
         IF TailBudgetExceeded(total, tokens, budget, tail) THEN tail
         ELSE TailLoop(d, buffer, k - 1, <<buffer[k]>> \o tail, total + tokens, budget)

_tail_within_tokens(d, buffer, budget) == TailLoop(d, buffer, Len(buffer), <<>>, 0, budget)

RECURSIVE DedupHeadings(_, _, _, _)
\* dict.fromkeys(headings): first occurrences, in order
DedupHeadings(d, buffer, k, acc) ==
    IF k > Len(buffer) THEN acc
    ELSE LET b == d[buffer[k]] IN
         IF b.kind = "heading" /\ ~(\E j \in 1..Len(acc) : acc[j] = b.text.id)
         THEN DedupHeadings(d, buffer, k + 1, Append(acc, b.text.id))
         ELSE DedupHeadings(d, buffer, k + 1, acc)

\* _build_section_path: the breadcrumb as the sequence it joins; <<>> is None
_build_section_path(d, buffer) == DedupHeadings(d, buffer, 1, <<>>)

PagesOf(d, buffer) == {d[buffer[k]].page : k \in 1..Len(buffer)}

\* the Chunk(...) constructor call of flush; blocks records which blocks of the
\* document the text was joined from
Chunk(d, buffer, chunk_index) ==
    [chunk_index |-> chunk_index,
     text |-> [k \in 1..Len(buffer) |-> d[buffer[k]].text.id],
     page_start |-> CHOOSE p \in PagesOf(d, buffer) : \A q \in PagesOf(d, buffer) : p <= q,
     page_end |-> CHOOSE p \in PagesOf(d, buffer) : \A q \in PagesOf(d, buffer) : p >= q,
     section_path |-> _build_section_path(d, buffer),
     token_count |-> JoinedTokens(d, buffer),
     blocks |-> buffer]

\* chunk_document.flush
flush(d, cfg, st, force) ==
    IF st.buffer = <<>> THEN st
    ELSE IF ~force /\ st.buffer_tokens < cfg.target_tokens THEN st
    ELSE LET tail == _tail_within_tokens(d, st.buffer, cfg.overlap_tokens) IN
         [chunks |-> Append(st.chunks, Chunk(d, st.buffer, st.chunk_index)),
          chunk_index |-> st.chunk_index + 1,
          buffer |-> tail,
          buffer_tokens |-> BufferTokens(d, tail)]

\* one iteration of `for block in doc.blocks`
ChunkStep(d, cfg, st, i) ==
    LET st1 == [st EXCEPT !.buffer = Append(st.buffer, i),
                          !.buffer_tokens = st.buffer_tokens + _estimate_tokens(d[i].text.words)]
        st2 == IF st1.buffer_tokens >= cfg.target_tokens THEN flush(d, cfg, st1, FALSE) ELSE st1
    IN IF st2.buffer_tokens >= cfg.max_tokens THEN flush(d, cfg, st2, TRUE) ELSE st2

RECURSIVE ChunkLoop(_, _, _, _)
ChunkLoop(d, cfg, st, i) ==
    IF i > Len(d) THEN st ELSE ChunkLoop(d, cfg, ChunkStep(d, cfg, st, i), i + 1)

FinalFlushUnforced(d, cfg, st) == flush(d, cfg, st, FALSE)

\* the flush(force=True) after the loop
FinalFlush(d, cfg, st) == flush(d, cfg, st, TRUE)

chunk_document(d, cfg) ==
    FinalFlush(d, cfg,
               ChunkLoop(d, cfg,
                         [chunks |-> <<>>, chunk_index |-> 0, buffer |-> <<>>, buffer_tokens |-> 0],
                         1)).chunks

-----------------------------------------------------------------------------
(* Chunking specification *)

\* overlap_tokens < target_tokens < max_tokens; the CLI admits overlap_tokens = 0
Configs ==
    {ChunkingConfig(t, o, m) : <<t, o, m>> \in
        {x \in (1..MaxTokens) \X (0..MaxTokens) \X (1..MaxTokens) : x[2] < x[1] /\ x[1] < x[3]}}

InitChunking ==
    /\ pc = "chunk_call"
    /\ \/ doc \in SeqsUpTo(BlockPool, MaxBlocks) /\ config \in Configs
       \/ doc = ExampleDoc /\ config = ExampleConfig
    /\ chunks = <<>>
    /\ candidates = <<>>
    /\ IdleGround
    /\ IdleRerank
    /\ IdleRetrieve
    /\ IdleQuery

ChunkDocument ==
    /\ pc = "chunk_call"
    /\ chunks' = chunk_document(doc, config)
    /\ pc' = "chunk_done"
    /\ UNCHANGED <<doc, config, groundVars, rerankVars, retrieveVars, queryVars>>

NextChunking == ChunkDocument

SpecChunking == InitChunking /\ [][NextChunking]_vars

-----------------------------------------------------------------------------
(* Claims about chunk_document *)

ChunkDone == pc = "chunk_done"

BlockEstimate(i) == _estimate_tokens(doc[i].text.words)

\* C5: every chunk has a token estimate of at most max_tokens, except a chunk
\* of a single block whose own estimate already exceeds max_tokens.
C5_ChunkWithinMaxTokens ==
    ChunkDone =>
        \A k \in 1..Len(chunks) :
            \/ chunks[k].token_count <= config.max_tokens
            \/ /\ Len(chunks[k].blocks) = 1
               /\ BlockEstimate(chunks[k].blocks[1]) > config.max_tokens

BlockSet(k) == {chunks[k].blocks[j] : j \in 1..Len(chunks[k].blocks)}

\* a chunk is a non-empty run of consecutive blocks of the document and its
\* text is the texts of those blocks
ContiguousRun(k) ==
    LET bs == chunks[k].blocks IN
    /\ Len(bs) >= 1
    /\ \A j \in 1..Len(bs) : bs[j] \in 1..Len(doc)
    /\ \A j \in 1..(Len(bs) - 1) : bs[j + 1] = bs[j] + 1
    /\ chunks[k].text = [j \in 1..Len(bs) |-> doc[bs[j]].text.id]

\* how many leading blocks chunk k shares with chunk k-1
SharedLead(k) ==
    IF k = 1 THEN 0
    ELSE LET bs == chunks[k].blocks
             Shared(m) == \A j \in 1..m : bs[j] \in BlockSet(k - 1)
         IN CHOOSE m \in 0..Len(bs) :
                Shared(m) /\ \A n \in 0..Len(bs) : Shared(n) => n <= m

WithoutLead(k) == SubSeq(chunks[k].blocks, SharedLead(k) + 1, Len(chunks[k].blocks))

RECURSIVE ConcatWithoutLead(_)
ConcatWithoutLead(k) == IF k = 0 THEN <<>> ELSE ConcatWithoutLead(k - 1) \o WithoutLead(k)

\* C6: each chunk is a contiguous run of the document's blocks, every block is
\* in some chunk, and the chunks without their shared leading blocks,
\* concatenated, are the document's blocks in order; no blocks, no chunks.
C6_ChunksReproduceDocument ==
    ChunkDone =>
        /\ \A k \in 1..Len(chunks) : ContiguousRun(k)
        /\ \A i \in 1..Len(doc) : \E k \in 1..Len(chunks) : i \in BlockSet(k)
        /\ ConcatWithoutLead(Len(chunks)) = [i \in 1..Len(doc) |-> i]
        /\ (doc = <<>> => chunks = <<>>)

\* C6 witness: three or more chunks, one of them of several blocks, and a
\* trailing buffer below target that only the final flush emits.
C6_Witness ==
    /\ ChunkDone /\ Len(chunks) >= 3 /\ Len(doc) = MaxBlocks
    /\ \E k \in 1..Len(chunks) : Len(chunks[k].blocks) >= 3
    /\ Len(WithoutLead(Len(chunks))) >= 1
    /\ BufferTokens(doc, chunks[Len(chunks)].blocks) < config.target_tokens

\* a non-empty suffix of chunk k is a prefix of chunk k+1
OverlapsNext(k) ==
    LET a == chunks[k].blocks
        b == chunks[k + 1].blocks
    IN \E m \in 1..Min(Len(a), Len(b)) :
           SubSeq(a, Len(a) - m + 1, Len(a)) = SubSeq(b, 1, m)

\* C7: with more than one chunk and overlap_tokens > 0, every two consecutive
\* chunks overlap.
C7_ConsecutiveChunksOverlap ==
    (ChunkDone /\ Len(chunks) > 1 /\ config.overlap_tokens > 0) =>
        \A k \in 1..(Len(chunks) - 1) : OverlapsNext(k)

\* C7 witness: a flushed buffer ends with a block larger than overlap_tokens
\* and the next chunk adds a new block to the retained tail.
C7_Witness ==
    /\ ChunkDone /\ config.overlap_tokens > 0
    /\ \E k \in 1..(Len(chunks) - 1) :
        LET a == chunks[k].blocks IN
        /\ BlockEstimate(a[Len(a)]) > config.overlap_tokens
        /\ OverlapsNext(k)
        /\ Len(chunks[k + 1].blocks) >= 2

-----------------------------------------------------------------------------
(* reranking.py *)

\* the embedding vectors a provider may return, among them the zero vector,
\* parallel, orthogonal and opposite vectors
VectorPool == { <<0, 0>>, <<1, 0>>, <<0, 1>>, <<1, 1>>, <<-1, 0>> }

RerankPool == {c \in CandidatePool : c.chunk_id \in {"c1", "c6"}}

RECURSIVE DotUpTo(_, _, _)
DotUpTo(a, b, n) == IF n = 0 THEN 0 ELSE a[n] * b[n] + DotUpTo(a, b, n - 1)

\* sum(x * y for x, y in zip(a, b))
Dot(a, b) == DotUpTo(a, b, Min(Len(a), Len(b)))

Sign(x) == IF x > 0 THEN 1 ELSE IF x < 0 THEN -1 ELSE 0

(***************************************************************************)
(* _cosine_similarity.  The quotient dot / (norm_a * norm_b) is kept       *)
(* exactly, as its sign and its square sq / den: the value is              *)
(* sgn * sqrt(sq / den), and 0.0 when either norm is zero.                 *)
(***************************************************************************)
_cosine_similarity(a, b) ==
    IF Dot(a, a) = 0 \/ Dot(b, b) = 0
    THEN [sgn |-> 0, sq |-> 0, den |-> 1]
    ELSE [sgn |-> Sign(Dot(a, b)), sq |-> Dot(a, b) * Dot(a, b), den |-> Dot(a, a) * Dot(b, b)]

\* x < y for two similarities
SimLess(x, y) == x.sgn * x.sq * y.den < y.sgn * y.sq * x.den

StaysAheadStrict(old, new) == SimLess(new, old)

\* list.sort(key=..., reverse=True) is stable: an element already placed stays
\* ahead of a later one unless its key is smaller
StaysAhead(old, new) == ~SimLess(old, new)

InsertDesc(sorted, item) ==
    LET m == Cardinality({j \in 1..Len(sorted) : StaysAhead(sorted[j].sim, item.sim)})
    IN SubSeq(sorted, 1, m) \o <<item>> \o SubSeq(sorted, m + 1, Len(sorted))

RECURSIVE SortDesc(_, _)
\* scored.sort(key=lambda item: item[0], reverse=True)
SortDesc(scored, n) == IF n = 0 THEN <<>> ELSE InsertDesc(SortDesc(scored, n - 1), scored[n])

\* scored[:top_n]
Truncate(sorted, n) ==
    IF n >= 0 THEN SubSeq(sorted, 1, Min(n, Len(sorted)))
    ELSE SubSeq(sorted, 1, Max(0, Len(sorted) + n))

EmbedTextsQueryLast(q, cands) == [i \in 1..Len(cands) |-> cands[i].text] \o <<q>>

\* texts = [query] + [candidate.text for candidate in candidates]
EmbedTexts(q, cands) == <<q>> \o [i \in 1..Len(cands) |-> cands[i].text]

\* for candidate, vector in zip(candidates, doc_vectors): scored.append(...);
\* item.src is the position of the candidate in candidates
Scored(cands, vecs) ==
    [i \in 1..Min(Len(cands), Len(vecs) - 1) |->
        [sim |-> _cosine_similarity(vecs[1], vecs[i + 1]), src |-> i]]

\* the positions of the returned candidates, given the provider's vectors
RerankOrder(cands, vecs, n) ==
    LET scored == Scored(cands, vecs)
        cut == Truncate(SortDesc(scored, Len(scored)), n)
    IN [j \in 1..Len(cut) |-> cut[j].src]

-----------------------------------------------------------------------------
(* Rerank specification *)

InitRerank ==
    /\ pc = "rerank_call"
    /\ candidates \in SeqsUpTo(RerankPool, MaxRerank)
    /\ query = "q"
    /\ top_n \in 0..MaxTopN
    /\ vectors = <<>> /\ embed_calls = <<>>
    /\ reranked = <<>> /\ reranked_src = <<>>
    /\ IdleGround
    /\ IdleChunk
    /\ IdleRetrieve
    /\ IdleQuery

\* if not candidates: return []
RerankEmpty ==
    /\ pc = "rerank_call"
    /\ candidates = <<>>
    /\ reranked' = <<>>
    /\ reranked_src' = <<>>
    /\ pc' = "rerank_done"
    /\ UNCHANGED <<candidates, query, top_n, vectors, embed_calls,
                   max_chunks, diversify, pack, chunkVars, retrieveVars, queryVars>>

\* embed returns one vector per text; the candidates are scored, sorted and cut
RerankOk ==
    /\ pc = "rerank_call"
    /\ candidates # <<>>
    /\ embed_calls' = Append(embed_calls, EmbedTexts(query, candidates))
    /\ \E vecs \in [1..(Len(candidates) + 1) -> VectorPool] :
        /\ vectors' = vecs
        /\ reranked_src' = RerankOrder(candidates, vecs, top_n)
        /\ reranked' = [j \in 1..Len(reranked_src') |-> candidates[reranked_src'[j]]]
    /\ pc' = "rerank_done"
    /\ UNCHANGED <<candidates, query, top_n, max_chunks, diversify, pack, chunkVars, retrieveVars, queryVars>>

\* embed raises (transport or auth failure) and the error leaves rerank
RerankProviderError ==
    /\ pc = "rerank_call"
    /\ candidates # <<>>
    /\ embed_calls' = Append(embed_calls, EmbedTexts(query, candidates))
    /\ pc' = "rerank_error"
    /\ UNCHANGED <<candidates, query, top_n, vectors, reranked, reranked_src,
                   max_chunks, diversify, pack, chunkVars, retrieveVars, queryVars>>

NextRerank == RerankEmpty \/ RerankOk \/ RerankProviderError

SpecRerank == InitRerank /\ [][NextRerank]_vars

-----------------------------------------------------------------------------
(* Claims about EmbeddingSimilarityReranker.rerank *)

RerankDone == pc = "rerank_done"

\* similarity of candidate i to the query, from the vectors the provider gave
SimOf(i) == _cosine_similarity(vectors[1], vectors[i + 1])

\* candidate i sorts before candidate k: larger similarity, or equal and earlier
SortsBefore(i, k) ==
    \/ SimLess(SimOf(k), SimOf(i))
    \/ ~SimLess(SimOf(i), SimOf(k)) /\ i < k

Returned == {reranked_src[j] : j \in 1..Len(reranked_src)}

\* C9: for non-empty candidates and top_n >= 0 the result is the first
\* min(top_n, len(candidates)) candidates in descending similarity, ties in
\* input order; only input candidates, each at most once.
C9_RerankSortedStablePrefix ==
    (RerankDone /\ candidates # <<>> /\ top_n >= 0) =>
        /\ Len(reranked) = Min(top_n, Len(candidates))
        /\ Len(reranked_src) = Len(reranked)
        /\ \A j \in 1..Len(reranked) :
            /\ reranked_src[j] \in 1..Len(candidates)
            /\ reranked[j] = candidates[reranked_src[j]]
        /\ \A j, k \in 1..Len(reranked) : j < k => SortsBefore(reranked_src[j], reranked_src[k])
        /\ \A i \in (1..Len(candidates)) \ Returned :
            \A j \in 1..Len(reranked) : SortsBefore(reranked_src[j], i)

\* C9 witness: the sort moved a later candidate to the front, and a tie in
\* similarity straddles the cut at top_n.
C9_Witness ==
    /\ RerankDone /\ Len(candidates) = 3 /\ top_n = 2
    /\ reranked_src[1] > reranked_src[2]
    /\ \E i \in (1..Len(candidates)) \ Returned :
        /\ ~SimLess(SimOf(i), SimOf(reranked_src[2]))
        /\ ~SimLess(SimOf(reranked_src[2]), SimOf(i))

TextsOf == [i \in 1..Len(candidates) |-> candidates[i].text]

\* C10: with no candidates rerank returns an empty sequence and never calls
\* embed; with n >= 1 candidates it calls embed exactly once, with the query
\* followed by the n candidate texts in order.
C10_OneBatchedEmbedCall ==
    /\ pc = "rerank_call" => embed_calls = <<>>
    /\ (pc \in {"rerank_done", "rerank_error"} /\ candidates = <<>>) =>
        /\ pc = "rerank_done"
        /\ reranked = <<>>
        /\ embed_calls = <<>>
    /\ (pc \in {"rerank_done", "rerank_error"} /\ candidates # <<>>) =>
        /\ Len(embed_calls) = 1
        /\ Len(embed_calls[1]) = Len(candidates) + 1
        /\ embed_calls[1][1] = query
        /\ \A i \in 1..Len(candidates) : embed_calls[1][i + 1] = TextsOf[i]

\* C10 witness: rerank returned for candidates with different texts after one
\* embed call.
C10_Witness ==
    /\ RerankDone /\ Len(candidates) >= 2
    /\ candidates[1].text # candidates[2].text
    /\ Len(embed_calls) = 1
    /\ reranked # <<>>

\* the blocks of chunk k that no earlier chunk contains
NewBlocks(k) == {b \in BlockSet(k) : \A j \in 1..(k - 1) : b \notin BlockSet(j)}

\* C16: every chunk contains at least one block that no earlier chunk of the
\* run contains; no chunk is only the overlap tail kept by the previous flush.
C16_EveryChunkAddsABlock ==
    ChunkDone => \A k \in 1..Len(chunks) : NewBlocks(k) # {}

-----------------------------------------------------------------------------
(* retrieval.py *)

MaxGroups == 2     \* longest user_groups list
MaxTopK == 2       \* largest top_k
MaxRecords == 3    \* most records in one backend response

\* Python's None where a string built from pieces is expected
NoFilter == <<"<None>">>

NoHighlight == <<"<None>">>

(***************************************************************************)
(* Group identifiers, each as the pieces of its text with every single     *)
(* quote a piece of its own: two plain names, a name containing a quote,   *)
(* and one containing a quote and filter operators.                        *)
(***************************************************************************)
GroupPool ==
    { <<"legal">>,
      <<"hr">>,
      <<"o", "'", "brien">>,
      <<"x", "'", ")", " or ", "allowed_groups/any(g: g eq ", "'", "admin">> }

\* f"allowed_groups/any(g: g eq '{group}')"
MembershipClause(group) ==
    <<"allowed_groups/any(g: g eq ", "'">> \o group \o <<"'", ")">>

RECURSIVE JoinPieces(_, _)
\* sep.join(parts), every part a sequence of pieces
JoinPieces(parts, sep) ==
    IF Len(parts) = 0 THEN <<>>
    ELSE IF Len(parts) = 1 THEN parts[1]
    ELSE parts[1] \o <<sep>> \o JoinPieces(Tail(parts), sep)

\* AzureSearchRetriever._filter_for_groups
_filter_for_groups(groups) ==
    IF groups = <<>> THEN NoFilter
    ELSE JoinPieces([i \in 1..Len(groups) |-> MembershipClause(groups[i])], " or ")

\* `if filter_clause:` - neither None nor the empty string
FilterGiven(filter_clause) == filter_clause # NoFilter /\ filter_clause # <<>>

\* the request body of retrieve; semcfg is "" when no configuration is set
SearchBody(q, vector, k, groups, semcfg) ==
    LET base == [search |-> q,
                 top |-> k,
                 includeTotalResultCount |-> FALSE,
                 vectors |-> <<[value |-> vector, fields |-> "embedding_vector", k |-> k]>>]
        filter_clause == _filter_for_groups(groups)
        filtered == IF FilterGiven(filter_clause)
                    THEN base @@ [filter |-> filter_clause] ELSE base
    IN IF semcfg # ""
       THEN filtered @@ [queryType |-> "semantic", semanticConfiguration |-> semcfg]
       ELSE filtered

\* raw.get(key, default)
Get(raw, key, default) == IF key \in DOMAIN raw THEN raw[key] ELSE default

(***************************************************************************)
(* Records of a backend response.  search_score and search_highlights are  *)
(* the keys "@search.score" and "@search.highlights" (the latter as its    *)
(* "text" list); metadata_json is a string and whether json.loads          *)
(* accepts it.                                                             *)
(***************************************************************************)
RawPool ==
    { [id |-> "c1", doc_id |-> "d1", rev |-> "A", text |-> "c1", search_score |-> 9,
       page_start |-> 1, page_end |-> 1,
       metadata_json |-> [text |-> "{title}", json |-> TRUE],
       search_highlights |-> <<"h1", "h2">>],
      [id |-> "c6", search_score |-> 6],
      [id |-> "c3", doc_id |-> "d1", text |-> "c3", section_path |-> "Intro",
       search_score |-> 8, metadata_json |-> [text |-> "not json", json |-> FALSE]] }

\* the metadata_dict of one record
MetadataOf(raw) ==
    LET metadata == Get(raw, "metadata_json", [text |-> "", json |-> FALSE]) IN
    IF metadata.text # ""
    THEN IF metadata.json THEN [parsed |-> metadata.text] ELSE [raw |-> metadata.text]
    ELSE <<>>

\* the highlight of one record
HighlightOf(raw) ==
    LET highlight_values == Get(raw, "search_highlights", <<>>) IN
    IF highlight_values # <<>>
    THEN JoinPieces([i \in 1..Len(highlight_values) |-> <<highlight_values[i]>>], " ... ")
    ELSE NoHighlight

\* the SearchResult(...) constructor call of retrieve
NormalizeRecord(raw) ==
    [chunk_id |-> Get(raw, "id", ""),
     doc_id |-> Get(raw, "doc_id", ""),
     rev |-> Get(raw, "rev", ""),
     text |-> Get(raw, "text", ""),
     score |-> Get(raw, "search_score", 0),
     section_path |-> Get(raw, "section_path", NoSection),
     page_start |-> Get(raw, "page_start", NoPage),
     page_end |-> Get(raw, "page_end", NoPage),
     metadata |-> MetadataOf(raw),
     highlights |-> HighlightOf(raw)]

\* for raw in payload.get("value", []): results.append(...)
NormalizeAll(value) == [i \in 1..Len(value) |-> NormalizeRecord(value[i])]

SendSearchWithRetry(requests, body) == Append(Append(requests, body), body)

\* self._client.post(..., json=body)
SendSearch(requests, body) == Append(requests, body)

\* the query vectors an embedding provider may return
QueryVectors == { <<1, 0>>, <<0, 1>> }

-----------------------------------------------------------------------------
(* Retrieve specification *)

InitRetrieve ==
    /\ pc = "retrieve_call"
    /\ query = "q"
    /\ user_groups \in SeqsUpTo(GroupPool, MaxGroups)
    /\ top_k \in 0..MaxTopK
    /\ semantic_configuration \in {"", "default"}
    /\ embed_error = FALSE
    /\ search_requests = <<>> /\ response = <<>> /\ results = <<>>
    /\ vectors = <<>> /\ embed_calls = <<>>
    /\ top_n = 0 /\ reranked = <<>> /\ reranked_src = <<>>
    /\ candidates = <<>>
    /\ IdleGround
    /\ IdleChunk
    /\ IdleQuery

\* vector = self._embedder.embed([query])[0] returns
RetrieveEmbedOk ==
    /\ pc = "retrieve_call"
    /\ embed_calls' = Append(embed_calls, <<query>>)
    /\ \E v \in QueryVectors : vectors' = <<v>>
    /\ pc' = "retrieve_embedded"
    /\ UNCHANGED <<candidates, max_chunks, diversify, pack, chunkVars, query, top_n,
                   reranked, reranked_src, user_groups, top_k, semantic_configuration,
                   embed_error, search_requests, response, results, queryVars>>

\* the embed call raises and the error leaves retrieve
RetrieveEmbedError ==
    /\ pc = "retrieve_call"
    /\ embed_calls' = Append(embed_calls, <<query>>)
    /\ embed_error' = TRUE
    /\ pc' = "retrieve_error"
    /\ UNCHANGED <<candidates, max_chunks, diversify, pack, chunkVars, query, top_n,
                   vectors, reranked, reranked_src, user_groups, top_k,
                   semantic_configuration, search_requests, response, results, queryVars>>

RetrieveBody == SearchBody(query, vectors[1], top_k, user_groups, semantic_configuration)

\* the post returns a success status; the payload is normalised and returned
RetrieveSearchOk ==
    /\ pc = "retrieve_embedded"
    /\ search_requests' = SendSearch(search_requests, RetrieveBody)
    /\ \E value \in SeqsUpTo(RawPool, MaxRecords) :
        /\ response' = [status |-> "ok", value |-> value]
        /\ results' = NormalizeAll(value)
    /\ pc' = "retrieve_done"
    /\ UNCHANGED <<candidates, max_chunks, diversify, pack, chunkVars, rerankVars,
                   user_groups, top_k, semantic_configuration, embed_error, queryVars>>

\* the post itself raises (transport failure)
RetrieveSearchTransportError ==
    /\ pc = "retrieve_embedded"
    /\ search_requests' = SendSearch(search_requests, RetrieveBody)
    /\ response' = [status |-> "transport_error", value |-> <<>>]
    /\ pc' = "retrieve_error"
    /\ UNCHANGED <<candidates, max_chunks, diversify, pack, chunkVars, rerankVars,
                   user_groups, top_k, semantic_configuration, embed_error, results,
                   queryVars>>

\* the backend answers a non-success status and response.raise_for_status() raises
RetrieveSearchBadStatus ==
    /\ pc = "retrieve_embedded"
    /\ search_requests' = SendSearch(search_requests, RetrieveBody)
    /\ \E value \in SeqsUpTo(RawPool, 1) :
        response' = [status |-> "bad_status", value |-> value]
    /\ pc' = "retrieve_error"
    /\ UNCHANGED <<candidates, max_chunks, diversify, pack, chunkVars, rerankVars,
                   user_groups, top_k, semantic_configuration, embed_error, results,
                   queryVars>>

NextRetrieve ==
    \/ RetrieveEmbedOk
    \/ RetrieveEmbedError
    \/ RetrieveSearchOk
    \/ RetrieveSearchTransportError
    \/ RetrieveSearchBadStatus

SpecRetrieve == InitRetrieve /\ [][NextRetrieve]_vars

-----------------------------------------------------------------------------
(* Claims about AzureSearchRetriever.retrieve *)

RECURSIVE ScanFilter(_, _, _, _, _)
(***************************************************************************)
(* How the backend's expression language reads a filter: a single quote    *)
(* opens a string literal, a doubled quote inside a literal is an escaped  *)
(* quote, a lone quote closes the literal.  shape is the expression with   *)
(* every literal replaced by "<literal>"; literals are their values.       *)
(***************************************************************************)
ScanFilter(expr, i, in_literal, literal, out) ==
    IF i > Len(expr)
    THEN IF in_literal THEN [out EXCEPT !.shape = Append(@, "<unterminated>")] ELSE out
    ELSE IF ~in_literal
    THEN IF expr[i] = "'"
         THEN ScanFilter(expr, i + 1, TRUE, <<>>, out)
         ELSE ScanFilter(expr, i + 1, FALSE, <<>>, [out EXCEPT !.shape = Append(@, expr[i])])
    ELSE IF expr[i] # "'"
    THEN ScanFilter(expr, i + 1, TRUE, Append(literal, expr[i]), out)
    ELSE IF i < Len(expr) /\ expr[i + 1] = "'"
    THEN ScanFilter(expr, i + 2, TRUE, Append(literal, "'"), out)
    ELSE ScanFilter(expr, i + 1, FALSE, <<>>,
                    [shape |-> Append(out.shape, "<literal>"),
                     literals |-> Append(out.literals, literal)])

ReadFilter(expr) == ScanFilter(expr, 1, FALSE, <<>>, [shape |-> <<>>, literals |-> <<>>])

\* n membership clauses joined by or, each with one literal
ClauseShape(n) ==
    JoinPieces([i \in 1..n |-> <<"allowed_groups/any(g: g eq ", "<literal>", ")">>], " or ")

RequestSent == search_requests # <<>>

\* C11: the request carries a filter iff user_groups is non-empty; the filter
\* is the OR of one membership clause per supplied group, in order, and names
\* no group outside user_groups.
C11_FilterIffGroupsOnePerGroup ==
    RequestSent =>
        LET body == search_requests[1] IN
        /\ ("filter" \in DOMAIN body) <=> (user_groups # <<>>)
        /\ ("filter" \in DOMAIN body) =>
            /\ ReadFilter(body.filter).shape = ClauseShape(Len(user_groups))
            /\ ReadFilter(body.filter).literals = user_groups

\* the part of C11 that does not depend on how identifiers are embedded
C11_FilterIffGroups ==
    RequestSent => (("filter" \in DOMAIN search_requests[1]) <=> (user_groups # <<>>))

\* C12: the clause structure of the filter (one quoted literal per group,
\* joined by or) is the same for any two group lists of equal length, so no
\* identifier closes its literal and adds conditions.
C12_FilterShapeIndependentOfGroups ==
    (RequestSent /\ user_groups # <<>>) =>
        LET read == ReadFilter(search_requests[1].filter) IN
        /\ Len(read.literals) = Len(user_groups)
        /\ \A other \in [1..Len(user_groups) -> GroupPool] :
            ReadFilter(_filter_for_groups(other)).shape = read.shape

RetrieveDone == pc = "retrieve_done"

\* C13: retrieve returns at most top_k results, one per backend record and in
\* the order the backend reported them.
C13_AtMostTopKInBackendOrder ==
    RetrieveDone =>
        /\ Len(results) <= top_k
        /\ Len(results) = Len(response.value)
        /\ \A i \in 1..Len(results) : results[i].chunk_id = response.value[i].id

\* the part of C13 that holds whatever the backend returns
C13_OnePerRecordInOrder ==
    RetrieveDone =>
        /\ Len(results) = Len(response.value)
        /\ \A i \in 1..Len(results) : results[i].chunk_id = response.value[i].id

\* C14: one retrieve call makes exactly one embedding call and then at most one
\* search request; when the embedding call fails, or the search request fails
\* or returns a non-success status, retrieve ends in an error, returns no
\* result and sends no second request.
C14_OneEmbedOneSearchNoRetry ==
    /\ Len(embed_calls) <= 1
    /\ Len(search_requests) <= 1
    /\ RequestSent => (Len(embed_calls) = 1 /\ ~embed_error /\ Len(vectors) = 1)
    /\ pc \in {"retrieve_done", "retrieve_error"} => embed_calls = <<(<<query>>)>>
    /\ embed_error => (pc = "retrieve_error" /\ search_requests = <<>> /\ results = <<>>)
    /\ (RequestSent /\ pc # "retrieve_embedded" /\ response.status # "ok") =>
        (pc = "retrieve_error" /\ results = <<>>)
    /\ pc = "retrieve_error" => results = <<>>
    /\ pc = "retrieve_done" => (Len(search_requests) = 1 /\ response.status = "ok")

\* C14 witness: the backend answered a non-success status to the one request
\* sent, with a record in the payload, and retrieve ended in an error.
C14_Witness ==
    /\ pc = "retrieve_error"
    /\ Len(search_requests) = 1
    /\ response.status = "bad_status"
    /\ response.value # <<>>
    /\ results = <<>>

-----------------------------------------------------------------------------
(* reranking.py take_top_n and cli.py query *)

MaxToScore == 2    \* largest settings.rerank.max_to_score
MaxResults == 2    \* most records the backend returns to the query command

RECURSIVE TakeLoop(_, _, _, _)
\* for candidate in candidates: results.append(candidate); if len(results) >= top_n: break
TakeLoop(cands, i, taken, n) ==
    IF i > Len(cands) THEN taken
    ELSE LET taken1 == Append(taken, cands[i]) IN
         IF Len(taken1) >= n THEN taken1 ELSE TakeLoop(cands, i + 1, taken1, n)

take_top_n(cands, n) == TakeLoop(cands, 1, <<>>, n)

\* PipelineSettings as far as query reads it; azure_search is whether it is set
Settings ==
    [azure_search : BOOLEAN,
     mock_embeddings : BOOLEAN,
     rerank_enabled : BOOLEAN,
     max_to_score : 0..MaxToScore,
     candidate_k : {2},
     final_context_chunks : {2},
     semantic_configuration : {""}]

\* candidate_k = top_k or settings.retrieval.candidate_k
CandidateK == IF top_k # 0 THEN top_k ELSE settings.candidate_k

\* rerank_chunks = final_chunks or settings.retrieval.final_context_chunks
RerankChunks == IF final_chunks # 0 THEN final_chunks ELSE settings.final_context_chunks

\* rerank_depth = min(settings.rerank.max_to_score, len(results))
RerankDepth == Min(settings.max_to_score, Len(results))

\* _close_resource: close() when the resource has a client to close
_close_resource(client) == IF client = "open" THEN "closed" ELSE client

InitQuery ==
    /\ pc = "query_call"
    /\ query = "q"
    /\ user_groups = <<(<<"legal">>)>>
    /\ top_k \in 0..1
    /\ final_chunks \in 0..1
    /\ disable_rerank \in BOOLEAN
    /\ settings \in Settings
    /\ semantic_configuration = ""
    /\ provider_client = "none" /\ retriever_client = "none"
    /\ rerank_input = <<>>
    /\ embed_error = FALSE
    /\ search_requests = <<>> /\ response = <<>> /\ results = <<>>
    /\ vectors = <<>> /\ embed_calls = <<>>
    /\ top_n = 0 /\ reranked = <<>> /\ reranked_src = <<>>
    /\ candidates = <<>>
    /\ IdleGround
    /\ IdleChunk

\* settings.azure_search is missing: typer.BadParameter before anything is created
QueryNoSearchSettings ==
    /\ pc = "query_call"
    /\ ~settings.azure_search
    /\ pc' = "query_exit_error"
    /\ UNCHANGED <<groundVars, chunkVars, rerankVars, retrieveVars, queryVars>>

\* provider = _build_embedding_provider(settings); retriever = AzureSearchRetriever(...)
QueryCreate ==
    /\ pc = "query_call"
    /\ settings.azure_search
    /\ provider_client' = IF settings.mock_embeddings THEN "none" ELSE "open"
    /\ retriever_client' = "open"
    /\ semantic_configuration' = settings.semantic_configuration
    /\ pc' = "query_created"
    /\ UNCHANGED <<groundVars, chunkVars, rerankVars, user_groups, top_k, embed_error,
                   search_requests, response, results, settings, disable_rerank,
                   final_chunks, rerank_input>>

\* results = retriever.retrieve(query_text, user_group, top_k=candidate_k) returns
QueryRetrieveOk ==
    /\ pc = "query_created"
    /\ embed_calls' = Append(embed_calls, <<query>>)
    /\ \E v \in QueryVectors :
        /\ vectors' = <<v>>
        /\ search_requests' =
               SendSearch(search_requests,
                          SearchBody(query, v, CandidateK, user_groups, semantic_configuration))
    /\ \E value \in SeqsUpTo(RawPool, MaxResults) :
        /\ response' = [status |-> "ok", value |-> value]
        /\ results' = NormalizeAll(value)
    /\ pc' = "query_retrieved"
    /\ UNCHANGED <<groundVars, chunkVars, query, top_n, reranked, reranked_src,
                   user_groups, top_k, semantic_configuration, embed_error, queryVars>>

\* retrieve raises in its embed call (the mock provider makes no request and
\* does not raise); the exception leaves query
QueryRetrieveEmbedError ==
    /\ pc = "query_created"
    /\ ~settings.mock_embeddings
    /\ embed_calls' = Append(embed_calls, <<query>>)
    /\ embed_error' = TRUE
    /\ pc' = "query_exit_error"
    /\ UNCHANGED <<groundVars, chunkVars, query, top_n, vectors, reranked, reranked_src,
                   user_groups, top_k, semantic_configuration, search_requests, response,
                   results, queryVars>>

\* retrieve raises in its search request; the exception leaves query
QueryRetrieveSearchError ==
    /\ pc = "query_created"
    /\ embed_calls' = Append(embed_calls, <<query>>)
    /\ \E v \in QueryVectors :
        /\ vectors' = <<v>>
        /\ search_requests' =
               SendSearch(search_requests,
                          SearchBody(query, v, CandidateK, user_groups, semantic_configuration))
    /\ \E status \in {"transport_error", "bad_status"} :
        response' = [status |-> status, value |-> <<>>]
    /\ pc' = "query_exit_error"
    /\ UNCHANGED <<groundVars, chunkVars, query, top_n, reranked, reranked_src,
                   user_groups, top_k, semantic_configuration, embed_error, results,
                   queryVars>>

RerankWanted == settings.rerank_enabled /\ ~disable_rerank

\* candidates = take_top_n(results, rerank_depth);
\* reranked = reranker.rerank(query_text, candidates, rerank_depth) returns
QueryRerankOk ==
    /\ pc = "query_retrieved"
    /\ RerankWanted
    /\ rerank_input' = take_top_n(results, RerankDepth)
    /\ top_n' = RerankDepth
    /\ IF rerank_input' = <<>>
       THEN /\ reranked' = <<>>
            /\ reranked_src' = <<>>
            /\ UNCHANGED <<vectors, embed_calls>>
       ELSE /\ embed_calls' = Append(embed_calls, EmbedTexts(query, rerank_input'))
            /\ \E vecs \in [1..(Len(rerank_input') + 1) -> QueryVectors] :
                /\ vectors' = vecs
                /\ reranked_src' = RerankOrder(rerank_input', vecs, RerankDepth)
                /\ reranked' = [j \in 1..Len(reranked_src') |-> rerank_input'[reranked_src'[j]]]
    /\ pc' = "query_reranked"
    /\ UNCHANGED <<groundVars, chunkVars, query, retrieveVars, settings, disable_rerank,
                   final_chunks, provider_client, retriever_client>>

\* the embed call of rerank raises; the exception leaves query
QueryRerankError ==
    /\ pc = "query_retrieved"
    /\ RerankWanted
    /\ ~settings.mock_embeddings
    /\ rerank_input' = take_top_n(results, RerankDepth)
    /\ rerank_input' # <<>>
    /\ top_n' = RerankDepth
    /\ embed_calls' = Append(embed_calls, EmbedTexts(query, rerank_input'))
    /\ pc' = "query_exit_error"
    /\ UNCHANGED <<groundVars, chunkVars, query, vectors, reranked, reranked_src,
                   retrieveVars, settings, disable_rerank, final_chunks,
                   provider_client, retriever_client>>

\* reranking disabled: reranked = results
QuerySkipRerank ==
    /\ pc = "query_retrieved"
    /\ ~RerankWanted
    /\ reranked' = results
    /\ pc' = "query_reranked"
    /\ UNCHANGED <<groundVars, chunkVars, query, top_n, vectors, embed_calls, reranked_src,
                   retrieveVars, queryVars>>

\* pack = build_grounding_pack(reranked, max_chunks=rerank_chunks); the summaries
\* are echoed; _close_resource(retriever); _close_resource(provider)
QueryFinish ==
    /\ pc = "query_reranked"
    /\ max_chunks' = RerankChunks
    /\ diversify' = TRUE
    /\ pack' = build_grounding_pack(reranked, RerankChunks, TRUE)
    /\ retriever_client' = _close_resource(retriever_client)
    /\ provider_client' = _close_resource(provider_client)
    /\ pc' = "query_exit_ok"
    /\ UNCHANGED <<candidates, chunkVars, rerankVars, retrieveVars, settings,
                   disable_rerank, final_chunks, rerank_input>>

NextQuery ==
    \/ QueryNoSearchSettings
    \/ QueryCreate
    \/ QueryRetrieveOk
    \/ QueryRetrieveEmbedError
    \/ QueryRetrieveSearchError
    \/ QueryRerankOk
    \/ QueryRerankError
    \/ QuerySkipRerank
    \/ QueryFinish

SpecQuery == InitQuery /\ [][NextQuery]_vars

-----------------------------------------------------------------------------
(* Claims about the query command and take_top_n *)

QueryExited == pc \in {"query_exit_ok", "query_exit_error"}

\* C15: on every exit path of query after the retriever and the provider were
\* created, error paths included, the retriever's and the provider's network
\* clients are closed.  The exit states are final (no action is enabled in
\* them), so a client open there is never closed.
C15_ClientsClosedOnEveryExit ==
    (QueryExited /\ retriever_client # "none") =>
        /\ retriever_client = "closed"
        /\ provider_client # "open"

\* the part of C15 that holds: the path on which nothing raises
C15_ClientsClosedOnNormalExit ==
    pc = "query_exit_ok" => (retriever_client = "closed" /\ provider_client # "open")

FirstN(s, n) == SubSeq(s, 1, Min(n, Len(s)))

\* C17: take_top_n returns the first min(top_n, len(candidates)) candidates in
\* input order for every top_n >= 0, so query hands the reranker exactly
\* min(max_to_score, number of retrieved results) candidates.
C17_TakeTopNIsPrefix ==
    (pc = "query_reranked" /\ RerankWanted) =>
        /\ \A n \in 0..MaxTopN : take_top_n(results, n) = FirstN(results, n)
        /\ rerank_input = FirstN(results, settings.max_to_score)
        /\ Len(rerank_input) = Min(settings.max_to_score, Len(results))

\* the part of C17 that holds: every top_n >= 1
C17_TakeTopNIsPrefixFromOne ==
    (pc = "query_reranked" /\ RerankWanted) =>
        /\ \A n \in 1..MaxTopN : take_top_n(results, n) = FirstN(results, n)
        /\ settings.max_to_score >= 1 => rerank_input = FirstN(results, settings.max_to_score)

====
